---- MODULE Spec2Model ----
(***************************************************************************)
(* fail2ban/client/configreader.py: the ConfigReader facade, the           *)
(* ConfigReaderUnshared store behind it and DefinitionInitConfigReader.    *)
(*                                                                         *)
(* Python values are written as strings where a variable can hold values   *)
(* of several types: "None", "True", "False"; "raise" marks a call that    *)
(* ended with an exception.  File names are sequences of character codes   *)
(* so that sorted() orders them as Python orders strings.                  *)
(***************************************************************************)
EXTENDS Integers, Sequences, FiniteSets, TLC

VARIABLES
    baseDirExists,   \* os.path.exists(self._basedir)
    disk,            \* the files below the base directory: path -> entry state
    cfg_share,       \* the shared table (share_config): name -> store or NoStore
    nStores,         \* number of ConfigReaderUnshared objects constructed so far
    read_cfg_files,  \* per store: ConfigReaderUnshared.read_cfg_files
    merged,          \* per store: the parser's merged options, (section, option) -> raw value
    cfg,             \* per facade: ConfigReader._cfg
    shared,          \* per facade: whether it was constructed with share_config
    configOpts,      \* DefinitionInitConfigReader._configOpts of the reader's class
    initOpts,        \* DefinitionInitConfigReader._initOpts
    opts,            \* DefinitionInitConfigReader._opts
    callerOpts,      \* history: the initOpts mapping the constructor was given
    firstRes,        \* history: per store and name, the result of the first completed read(name, once=True)
    lastOp,          \* the most recent call and what it returned
    basedir,         \* per store: ConfigReaderUnshared._basedir
    file,            \* DefinitionInitConfigReader._file
    thread,          \* per facade: where a caller stands inside ConfigReader.read, with its locals
    raised           \* history: per store and name, whether a read(name, once=True) raised

vars == <<baseDirExists, disk, cfg_share, nStores, read_cfg_files, merged, cfg,
          shared, configOpts, initOpts, opts, callerOpts, firstRes, lastOp,
          basedir, file, thread, raised>>

----------------------------------------------------------------------------
(* Bounds *)

NumFacades == 2

Facades == 1..NumFacades
StoreIds == 1..NumFacades       \* a facade constructs at most one store
NoStore == 0                    \* self._cfg = None / table.get(name) = None

Names == {"A", "B"}             \* entity names passed to read

EmptyMap == [k \in {} |-> "None"]

----------------------------------------------------------------------------
(* File names and the file system *)

DotConf == <<46, 99, 111, 110, 102>>           \* ".conf"
DotLocal == <<46, 108, 111, 99, 97, 108>>      \* ".local"
DotD == <<46, 100, 47>>                        \* ".d/"

\* directory entries of <name>.d that the model lets exist
DropInFiles == { <<97>> \o DotConf,            \* "a.conf"
                 <<97, 45, 98>> \o DotConf,    \* "a-b.conf"
                 <<57>> \o DotLocal,           \* "9.local"
                 <<49, 48>> \o DotLocal,       \* "10.local"
                 <<97>> \o DotConf \o <<126>>  \* "a.conf~"
               }

\* A path is basedir/<ent><suffix>: suffix ".conf", ".local" or ".d/<file>".
BasePath(name, ext) == [ent |-> name, dir |-> "", file |-> ext]
DropInPath(name, f) == [ent |-> name, dir |-> ".d", file |-> f]

AllPaths == { BasePath(n, e) : n \in Names, e \in {DotConf, DotLocal} }
            \cup { DropInPath(n, f) : n \in Names, f \in DropInFiles }

\* the part of the path string after basedir/<ent>
PathStr(p) == IF p.dir = "" THEN p.file ELSE DotD \o p.file

\* Contents of a parseable file: (section, option) -> raw value.
Body(id) ==
    CASE id = "b1" -> (<<"Definition", "opt">> :> "1")
      [] id = "b2" -> (<<"Definition", "opt">> :> "yes" @@ <<"Init", "x">> :> "ini")
      [] id = "b3" -> (<<"Definition", "num">> :> "abc" @@ <<"Init", "x">> :> "loc"
                        @@ <<"Init", "y">> :> "why")
Bodies == {"b1", "b2", "b3"}

\* Entry states of a path: "absent" (no entry), "dangling" (a broken symlink),
\* "bad" (a file the parser cannot read) or the body of a parseable file.

Lexists(p) == disk[p] # "absent"                       \* os.path.lexists
Exists(p) == disk[p] \notin {"absent", "dangling"}     \* os.path.exists
Parses(p) == disk[p] \in Bodies

\* Python's string order on sequences of character codes
StrLeq(a, b) ==
    LET n == IF Len(a) < Len(b) THEN Len(a) ELSE Len(b)
        diff == { i \in 1..n : a[i] # b[i] }
    IN  IF diff = {} THEN Len(a) <= Len(b)
        ELSE LET i == CHOOSE j \in diff : \A k \in diff : j <= k
             IN  a[i] < b[i]

EndsWith(s, suf) ==
    /\ Len(s) >= Len(suf)
    /\ SubSeq(s, Len(s) - Len(suf) + 1, Len(s)) = suf

\* glob.glob('%s/*<ext>' % config_dir): the entries of <name>.d that match
Glob(name, ext) ==
    { p \in AllPaths : /\ p.ent = name
                       /\ p.dir = ".d"
                       /\ Lexists(p)
                       /\ p.file[1] # 46
                       /\ EndsWith(p.file, ext) }

\* sorted() left out: the entries in the reverse of their sorted order
RECURSIVE Sorted_listdirOrder(_)
Sorted_listdirOrder(S) ==
    IF S = {} THEN <<>>
    ELSE LET m == CHOOSE x \in S : \A y \in S : StrLeq(PathStr(y), PathStr(x))
         IN  <<m>> \o Sorted_listdirOrder(S \ {m})

\* sorted(...) of a glob result
RECURSIVE Sorted(_)
Sorted(S) ==
    IF S = {} THEN <<>>
    ELSE LET m == CHOOSE x \in S : \A y \in S : StrLeq(PathStr(x), PathStr(y))
         IN  <<m>> \o Sorted(S \ {m})

\* N.local appended before the *.conf drop-ins
CandidateList_localFirst(name) ==
    <<BasePath(name, DotConf)>> \o <<BasePath(name, DotLocal)>>
        \o Sorted(Glob(name, DotConf)) \o Sorted(Glob(name, DotLocal))

\* lines 127-135: the candidate list before the existence filter
CandidateList(name) ==
    <<BasePath(name, DotConf)>> \o Sorted(Glob(name, DotConf))
        \o <<BasePath(name, DotLocal)>> \o Sorted(Glob(name, DotLocal))

\* line 138: config_files = filter(os.path.exists, config_files)
ExistingFiles(files) == SelectSeq(files, Exists)

----------------------------------------------------------------------------
(* SafeConfigParserWithIncludes.read: merges the files in the order given, *)
(* a later file overriding the options of an earlier one, skips the files  *)
(* it cannot parse, and returns the files it parsed.                       *)

MergeBody(m, b) ==
    [k \in DOMAIN m \cup DOMAIN b |-> IF k \in DOMAIN b THEN b[k] ELSE m[k]]

RECURSIVE ParseFiles(_, _)
ParseFiles(m, files) ==
    IF files = <<>> THEN m
    ELSE ParseFiles(IF Parses(Head(files)) THEN MergeBody(m, Body(disk[Head(files)]))
                    ELSE m,
                    Tail(files))

FilesRead(files) == SelectSeq(files, Parses)

----------------------------------------------------------------------------
(* ConfigReaderUnshared.read *)

\* False as soon as one existing file could not be read
ReadReturn_failOnMissed(config_files, config_files_read) ==
    IF Len(config_files) > 0
    THEN IF Len(config_files_read) = Len(config_files) THEN "True" ELSE "False"
    ELSE "False"

\* True when there was nothing to read
ReadReturn_emptyIsTrue(config_files, config_files_read) ==
    IF Len(config_files) > 0
    THEN IF Len(config_files_read) > 0 THEN "True" ELSE "False"
    ELSE "True"

\* lines 140-158: the value returned, given the existing files and those parsed
ReadReturn(config_files, config_files_read) ==
    IF Len(config_files) > 0
    THEN IF Len(config_files_read) > 0 THEN "True" ELSE "False"
    ELSE "False"

\* the check left out
BaseDirMissing_unchecked == FALSE

\* line 122: not os.path.exists(self._basedir)
BaseDirMissing == ~baseDirExists

\* The call on a store whose merged state is m: what it returns ("raise" for
\* the ValueError), the list handed to the parser and the merged state after.
UnsharedRead(m, name) ==
    IF BaseDirMissing
    THEN [ret |-> "raise", files |-> <<>>, merged |-> m]
    ELSE LET config_files == ExistingFiles(CandidateList(name))
         IN  IF Len(config_files) > 0
             THEN [ret |-> ReadReturn(config_files, FilesRead(config_files)),
                   files |-> config_files,
                   merged |-> ParseFiles(m, config_files)]
             ELSE [ret |-> ReadReturn(config_files, <<>>),
                   files |-> <<>>,
                   merged |-> m]

----------------------------------------------------------------------------
(* ConfigReader.read *)

\* line 65: the facade has no store yet and was given a shared table
Unbound(f) == cfg[f] = NoStore /\ shared[f]

\* a store registered under name taken at every read, not only while unbound
BoundStore_perName(f, name) ==
    IF shared[f] /\ cfg_share[name] # NoStore THEN cfg_share[name]
    ELSE IF Unbound(f) THEN nStores + 1
    ELSE cfg[f]

\* lines 65-69: the store self._cfg names after the "shared ?" block; a store
\* constructed here is the next unused one
BoundStore(f, name) ==
    IF Unbound(f)
    THEN IF cfg_share[name] # NoStore THEN cfg_share[name] ELSE nStores + 1
    ELSE cfg[f]

\* lines 67-69: a new store is constructed and registered under name
Registers(f, name) == Unbound(f) /\ cfg_share[name] = NoStore

\* "once and rc.get(name)": a cached False is not honoured
CacheHit_truthy(once, cached) == once /\ cached = "True"

\* line 72: once and rc.get(name) is not None
CacheHit(once, cached) == once /\ cached # "None"

\* the result saved whatever once is
SavesResult_always(once) == TRUE

\* line 79: if once
SavesResult(once) == once

\* the ValueError caught and its outcome kept like a result
Propagates_caught(ret) == FALSE

\* line 76: a ValueError of the store's read leaves ConfigReader.read at
\* once, lines 79-81 skipped
Propagates(ret) == ret = "raise"

\* pOptions / pOpts: None, or the names the caller excludes
NoExclusion == [given |-> FALSE, names |-> {}]

NoOp == [op |-> "none", fac |-> 0, name |-> "", once |-> FALSE, store |-> NoStore,
         ret |-> "None", invoked |-> FALSE, files |-> <<>>,
         sec |-> "", options |-> <<>>, pOptions |-> NoExclusion, values |-> EmptyMap,
         exc |-> "none", result |-> <<>>]

Read(f, name, once) ==
    LET s == BoundStore(f, name)
        rc == read_cfg_files[s]
        r == UnsharedRead(merged[s], name)
        hit == CacheHit(once, rc[name])
        ret == IF hit THEN rc[name] ELSE r.ret
    IN  /\ cfg' = [cfg EXCEPT ![f] = s]
        /\ cfg_share' = IF Registers(f, name) THEN [cfg_share EXCEPT ![name] = s]
                         ELSE cfg_share
        /\ nStores' = IF Registers(f, name) THEN nStores + 1 ELSE nStores
        /\ merged' = IF hit THEN merged ELSE [merged EXCEPT ![s] = r.merged]
        /\ read_cfg_files' =
               IF ~hit /\ ~Propagates(r.ret) /\ SavesResult(once)
               THEN [read_cfg_files EXCEPT ![s][name] = r.ret]
               ELSE read_cfg_files
        /\ firstRes' = IF once /\ ret # "raise" /\ firstRes[s][name] = "None"
                        THEN [firstRes EXCEPT ![s][name] = ret]
                        ELSE firstRes
        /\ lastOp' = [NoOp EXCEPT !.op = "read", !.fac = f, !.name = name,
                                   !.once = once, !.store = s, !.ret = ret,
                                   !.invoked = ~hit,
                                   !.files = IF hit THEN <<>> ELSE r.files,
                                   !.exc = IF ret = "raise" THEN "ValueError" ELSE "none"]
        /\ UNCHANGED <<baseDirExists, disk, shared, configOpts, initOpts, opts,
                       callerOpts>>

----------------------------------------------------------------------------
(* ConfigReaderUnshared.getOptions *)

\* Typed values are pairs <<type, value>>; None is <<"none", "None">>.
NoneValue == <<"none", "None">>

\* ConfigParser._boolean_states, keyed by the lower-cased raw value
BooleanStates ==
    [v \in {"1", "yes", "true", "on", "0", "no", "false", "off"} |->
        v \in {"1", "yes", "true", "on"}]

\* int(raw) for the raw values the files of the model hold; the others are
\* no integer literals
IntLiterals == ("1" :> 1) @@ ("0" :> 0)

has_section(m, sec) == \E k \in DOMAIN m : k[1] = sec

options(m, sec) == { k[2] : k \in { j \in DOMAIN m : j[1] = sec } }

\* lines 174-179: getboolean / getint / get of one option; exc names the
\* exception raised, "none" when v is the value
TypedGet(m, sec, option) ==
    IF ~has_section(m, sec) THEN [exc |-> "NoSectionError", v |-> NoneValue]
    ELSE IF <<sec, option.name>> \notin DOMAIN m
    THEN [exc |-> "NoOptionError", v |-> NoneValue]
    ELSE LET raw == m[<<sec, option.name>>]
         IN  IF option.type = "bool"
             THEN IF raw \in DOMAIN BooleanStates
                  THEN [exc |-> "none", v |-> <<"bool", BooleanStates[raw]>>]
                  ELSE [exc |-> "ValueError", v |-> NoneValue]
             ELSE IF option.type = "int"
             THEN IF raw \in DOMAIN IntLiterals
                  THEN [exc |-> "none", v |-> <<"int", IntLiterals[raw]>>]
                  ELSE [exc |-> "ValueError", v |-> NoneValue]
             ELSE [exc |-> "none", v |-> <<"str", raw>>]

Put(values, name, v) ==
    [n \in DOMAIN values \cup {name} |-> IF n = name THEN v ELSE values[n]]

\* a missing option always stores its default, None included
OptionStep_noneStored(values, option, got, pOptions) ==
    CASE got.exc = "none" ->
            IF pOptions.given /\ option.name \in pOptions.names
            THEN values
            ELSE Put(values, option.name, got.v)
      [] OTHER -> Put(values, option.name, option.default)

\* every failure treated as a missing option: a None default is not stored
OptionStep_noneDropped(values, option, got, pOptions) ==
    CASE got.exc = "none" ->
            IF pOptions.given /\ option.name \in pOptions.names
            THEN values
            ELSE Put(values, option.name, got.v)
      [] OTHER ->
            IF option.default # NoneValue
            THEN Put(values, option.name, option.default)
            ELSE values

\* a value that fails its coercion is kept as the raw text
OptionStep_rawOnValueError(values, option, got, pOptions) ==
    CASE got.exc = "none" ->
            IF pOptions.given /\ option.name \in pOptions.names
            THEN values
            ELSE Put(values, option.name, got.v)
      [] got.exc = "NoSectionError" -> Put(values, option.name, option.default)
      [] got.exc = "NoOptionError" ->
            IF option.default # NoneValue
            THEN Put(values, option.name, option.default)
            ELSE values
      [] got.exc = "ValueError" -> Put(values, option.name, <<"str", "raw">>)

\* lines 180-198: what one pass of the loop body does to values
OptionStep(values, option, got, pOptions) ==
    CASE got.exc = "none" ->
            IF pOptions.given /\ option.name \in pOptions.names
            THEN values
            ELSE Put(values, option.name, got.v)
      [] got.exc = "NoSectionError" -> Put(values, option.name, option.default)
      [] got.exc = "NoOptionError" ->
            IF option.default # NoneValue
            THEN Put(values, option.name, option.default)
            ELSE values
      [] got.exc = "ValueError" -> Put(values, option.name, option.default)

RECURSIVE OptionsLoop(_, _, _, _, _)
OptionsLoop(m, sec, opts_, pOptions, values) ==
    IF opts_ = <<>> THEN values
    ELSE OptionsLoop(m, sec, Tail(opts_), pOptions,
                     OptionStep(values, Head(opts_),
                                TypedGet(m, sec, Head(opts_)), pOptions))

\* getOptions(sec, options, pOptions) on a store whose merged state is m
UnsharedGetOptions(m, sec, opts_, pOptions) ==
    OptionsLoop(m, sec, opts_, pOptions, EmptyMap)

\* the option-spec lists the model passes: [type, name, default]
OptionSpec(t, n, d) == [type |-> t, name |-> n, default |-> d]
OptionLists ==
    { << OptionSpec("bool", "opt", <<"bool", FALSE>>),
         OptionSpec("int", "num", <<"int", 3>>) >>,
      << OptionSpec("int", "opt", NoneValue),
         OptionSpec("string", "miss", NoneValue) >>,
      << OptionSpec("string", "num", <<"str", "d">>),
         OptionSpec("string", "miss", <<"str", "d">>) >>,
      << OptionSpec("bool", "num", NoneValue) >> }

Sections == {"Definition", "Init", "Nope"}
Exclusions == { NoExclusion } \cup
              { [given |-> TRUE, names |-> S] : S \in {{}, {"opt"}, {"num", "miss"}} }

\* getOptions writes the defaults it returns back into the merged state
GetOptions_storesDefaults(f, sec, opts_, pOptions) ==
    LET vals == UnsharedGetOptions(merged[cfg[f]], sec, opts_, pOptions)
        kept == { n \in DOMAIN vals : vals[n] # NoneValue }
    IN  /\ cfg[f] # NoStore
        /\ merged' = [merged EXCEPT ![cfg[f]] =
                         [k \in DOMAIN @ \cup { <<sec, n>> : n \in kept } |->
                             IF k \in DOMAIN @ THEN @[k] ELSE "default"]]
        /\ lastOp' = [NoOp EXCEPT !.op = "getOptions", !.fac = f, !.store = cfg[f],
                                  !.sec = sec, !.options = opts_, !.pOptions = pOptions,
                                  !.values = vals]
        /\ UNCHANGED <<baseDirExists, disk, cfg_share, nStores, read_cfg_files,
                       cfg, shared, configOpts, initOpts, opts, callerOpts, firstRes>>

\* ConfigReader.getOptions: delegates to the store; a facade without a store
\* fails with AttributeError
GetOptions(f, sec, opts_, pOptions) ==
    /\ lastOp' =
          IF cfg[f] = NoStore
          THEN [NoOp EXCEPT !.op = "getOptions", !.fac = f, !.ret = "raise",
                            !.exc = "AttributeError",
                            !.sec = sec, !.options = opts_, !.pOptions = pOptions]
          ELSE [NoOp EXCEPT !.op = "getOptions", !.fac = f, !.store = cfg[f],
                            !.sec = sec, !.options = opts_, !.pOptions = pOptions,
                            !.values = UnsharedGetOptions(merged[cfg[f]], sec, opts_, pOptions)]
    /\ UNCHANGED <<baseDirExists, disk, cfg_share, nStores, read_cfg_files, merged,
                   cfg, shared, configOpts, initOpts, opts, callerOpts, firstRes>>

----------------------------------------------------------------------------
(* ConfigReader: the other methods that delegate to self._cfg *)

\* line 106: "/etc/fail2ban"
DEFAULT_BASEDIR == <<47, 101, 116, 99, 47, 102, 97, 105, 108, 50, 98, 97, 110>>

\* what self._cfg holds for the delegation; nothing is read from it when it is None
CfgState(f) == IF cfg[f] = NoStore THEN EmptyMap ELSE merged[cfg[f]]
CfgBaseDir(f) == IF cfg[f] = NoStore THEN <<>> ELSE basedir[cfg[f]]

\* the outcome of a call: the exception raised ("none" when it returns) and
\* the value returned
Ok(v) == [exc |-> "none", result |-> v]
Fail(e) == [exc |-> e, result |-> <<>>]

\* the parser's queries on a merged state m
sections(m) == { k[1] : k \in DOMAIN m }
ParserSections(m) == Ok(<<"set", sections(m)>>)
ParserHasSection(m, sec) == Ok(<<"bool", has_section(m, sec)>>)
ParserOptions(m, sec) ==
    IF has_section(m, sec) THEN Ok(<<"set", options(m, sec)>>)
    ELSE Fail("NoSectionError")
ParserGet(m, sec, opt) ==
    IF ~has_section(m, sec) THEN Fail("NoSectionError")
    ELSE IF <<sec, opt>> \notin DOMAIN m THEN Fail("NoOptionError")
    ELSE Ok(<<"str", m[<<sec, opt>>]>>)

\* self._cfg.method(...): None has no such attribute
Delegate(f, outcome) ==
    IF cfg[f] = NoStore THEN Fail("AttributeError") ELSE outcome

\* the call recorded: its outcome and the store it was delegated to
Called(op, f, outcome) ==
    [NoOp EXCEPT !.op = op, !.fac = f, !.store = cfg[f],
                 !.ret = IF outcome.exc = "none" THEN "None" ELSE "raise",
                 !.exc = outcome.exc, !.result = outcome.result]

\* what a method that only delegates leaves alone
QueryFrame ==
    UNCHANGED <<baseDirExists, disk, cfg_share, nStores, read_cfg_files, merged,
                cfg, shared, configOpts, initOpts, opts, callerOpts, firstRes>>

\* lines 83-84
QuerySections(f) ==
    /\ lastOp' = Called("sections", f, Delegate(f, ParserSections(CfgState(f))))
    /\ QueryFrame

\* lines 86-87
QueryHasSection(f, sec) ==
    /\ lastOp' = [Called("has_section", f,
                         Delegate(f, ParserHasSection(CfgState(f), sec)))
                     EXCEPT !.sec = sec]
    /\ QueryFrame

\* lines 89-90
QueryOptions(f, sec) ==
    /\ lastOp' = [Called("options", f,
                         Delegate(f, ParserOptions(CfgState(f), sec)))
                     EXCEPT !.sec = sec]
    /\ QueryFrame

\* lines 92-93
QueryGet(f, sec, opt) ==
    /\ lastOp' = [Called("get", f, Delegate(f, ParserGet(CfgState(f), sec, opt)))
                     EXCEPT !.sec = sec, !.name = opt]
    /\ QueryFrame

\* basedir arguments: None, or a path
NoBaseDir == [given |-> FALSE, path |-> <<>>]
BaseDirArgs ==
    { NoBaseDir,
      [given |-> TRUE, path |-> DEFAULT_BASEDIR],
      [given |-> TRUE, path |-> DEFAULT_BASEDIR \o <<47>>] }

\* str.rstrip('/')
RECURSIVE RStrip(_)
RStrip(path) ==
    IF path # <<>> /\ path[Len(path)] = 47
    THEN RStrip(SubSeq(path, 1, Len(path) - 1))
    ELSE path

\* lines 113-116
UnsharedSetBaseDir(bd) ==
    RStrip(IF bd.given THEN bd.path ELSE DEFAULT_BASEDIR)

\* lines 57-58
SetBaseDir(f, bd) ==
    /\ lastOp' = Called("setBaseDir", f, Delegate(f, Ok(<<>>)))
    /\ basedir' = IF cfg[f] = NoStore THEN basedir
                  ELSE [basedir EXCEPT ![cfg[f]] = UnsharedSetBaseDir(bd)]
    /\ QueryFrame
    /\ UNCHANGED <<file, thread, raised>>

\* lines 60-61
GetBaseDir(f) ==
    /\ lastOp' = Called("getBaseDir", f, Delegate(f, Ok(<<"str", CfgBaseDir(f)>>)))
    /\ QueryFrame

----------------------------------------------------------------------------
(* DefinitionInitConfigReader: facade 1, reading self._file *)

\* the file_ argument of the constructor
File == "A"

\* every option of [Init] stored, replacing what the mapping holds
HarvestInit_overwrite(io, m) ==
    [o \in DOMAIN io \cup options(m, "Init") |->
        IF o \in options(m, "Init") THEN m[<<"Init", o>>] ELSE io[o]]

\* lines 242-245: the options of [Init] that self._initOpts lacks are added
HarvestInit(io, m) ==
    IF has_section(m, "Init")
    THEN [o \in DOMAIN io \cup options(m, "Init") |->
            IF o \in DOMAIN io THEN io[o] ELSE m[<<"Init", o>>]]
    ELSE io

\* lines 231-232
DefinitionRead == Read(1, file, TRUE)

\* lines 238-245
DefinitionGetOptions(pOpts) ==
    /\ IF cfg[1] = NoStore
       THEN /\ lastOp' = [NoOp EXCEPT !.op = "getOptionsD", !.fac = 1, !.ret = "raise",
                                      !.exc = "AttributeError", !.pOptions = pOpts]
            /\ UNCHANGED <<opts, initOpts>>
       ELSE /\ opts' = UnsharedGetOptions(merged[cfg[1]], "Definition", configOpts, pOpts)
            /\ initOpts' = HarvestInit(initOpts, merged[cfg[1]])
            /\ lastOp' = [NoOp EXCEPT !.op = "getOptionsD", !.fac = 1, !.store = cfg[1],
                                      !.sec = "Definition", !.options = configOpts,
                                      !.pOptions = pOpts]
    /\ UNCHANGED <<baseDirExists, disk, cfg_share, nStores, read_cfg_files, merged,
                   cfg, shared, configOpts, callerOpts, firstRes>>

\* the file changed, the overrides kept
SetFile_keepsInitOpts(fileName) ==
    /\ file' = fileName
    /\ lastOp' = [NoOp EXCEPT !.op = "setFile", !.fac = 1, !.name = fileName]
    /\ UNCHANGED <<baseDirExists, disk, cfg_share, nStores, read_cfg_files, merged,
                   cfg, shared, configOpts, initOpts, opts, callerOpts, firstRes,
                   basedir, thread, raised>>

\* lines 218-220
SetFile(fileName) ==
    /\ file' = fileName
    /\ initOpts' = EmptyMap
    /\ lastOp' = [NoOp EXCEPT !.op = "setFile", !.fac = 1, !.name = fileName]
    /\ UNCHANGED <<baseDirExists, disk, cfg_share, nStores, read_cfg_files, merged,
                   cfg, shared, configOpts, opts, callerOpts, firstRes,
                   basedir, thread, raised>>

----------------------------------------------------------------------------
(* The environment: the files below the base directory change between calls *)

\* paths and entry states the environment steps range over
DynPaths == { BasePath(n, DotConf) : n \in Names }
DynStates == {"absent", "b1"}

EmptyDisk == [p \in AllPaths |-> "absent"]

FsChange(p, st) ==
    /\ baseDirExists
    /\ disk[p] # st
    /\ disk' = [disk EXCEPT ![p] = st]
    /\ lastOp' = NoOp
    /\ UNCHANGED <<baseDirExists, cfg_share, nStores, read_cfg_files, merged, cfg,
                   shared, configOpts, initOpts, opts, callerOpts, firstRes>>

\* the base directory is removed with all it holds
RemoveBaseDir ==
    /\ baseDirExists
    /\ baseDirExists' = FALSE
    /\ disk' = EmptyDisk
    /\ lastOp' = NoOp
    /\ UNCHANGED <<cfg_share, nStores, read_cfg_files, merged, cfg,
                   shared, configOpts, initOpts, opts, callerOpts, firstRes>>

CreateBaseDir ==
    /\ ~baseDirExists
    /\ baseDirExists' = TRUE
    /\ lastOp' = NoOp
    /\ UNCHANGED <<disk, cfg_share, nStores, read_cfg_files, merged, cfg,
                   shared, configOpts, initOpts, opts, callerOpts, firstRes>>

----------------------------------------------------------------------------
(* Spec: facades constructed with one shared table, files changing *)

NewStores == [s \in StoreIds |-> [n \in Names |-> "None"]]

\* no caller is inside read
Idle == [pc |-> "idle", name |-> "", once |-> FALSE, ret |-> "None", invoked |-> FALSE]

\* the state outside the stores' caches and merged options, as the
\* constructors leave it
InitRest ==
    /\ basedir = [s \in StoreIds |-> DEFAULT_BASEDIR]
    /\ file = File
    /\ thread = [f \in Facades |-> Idle]
    /\ raised = NewStores

\* calls made one after another, outside a DefinitionInitConfigReader's
\* setFile and a store's setBaseDir
Sequential == UNCHANGED <<basedir, file, thread, raised>>

InitReaderUnused ==
    /\ configOpts = <<>>
    /\ initOpts = EmptyMap
    /\ opts = EmptyMap
    /\ callerOpts = EmptyMap

Init ==
    /\ baseDirExists \in BOOLEAN
    /\ disk = EmptyDisk
    /\ cfg_share = [n \in Names |-> NoStore]
    /\ nStores = 0
    /\ read_cfg_files = NewStores
    /\ merged = [s \in StoreIds |-> EmptyMap]
    /\ cfg = [f \in Facades |-> NoStore]
    /\ shared = [f \in Facades |-> TRUE]
    /\ firstRes = NewStores
    /\ lastOp = NoOp
    /\ InitReaderUnused
    /\ InitRest

ReadOnce == \E f \in Facades, n \in Names : Read(f, n, TRUE)
ReadForced == \E f \in Facades, n \in Names : Read(f, n, FALSE)
FileChanges == \E p \in DynPaths, st \in DynStates : FsChange(p, st)

Next ==
    \/ ReadOnce /\ Sequential
    \/ ReadForced /\ Sequential
    \/ FileChanges /\ Sequential
    \/ RemoveBaseDir /\ Sequential
    \/ CreateBaseDir /\ Sequential

Spec == Init /\ [][Next]_vars

----------------------------------------------------------------------------
(* SpecFiles: one facade with a private store, any files below the base    *)
(* directory, fixed while the facade reads                                 *)

\* the entry states each path takes in the initial states of SpecFiles
FileStates(p) ==
    CASE p = BasePath("A", DotConf)                    -> {"absent", "bad", "b1"}
      [] p = DropInPath("A", <<97, 45, 98>> \o DotConf) -> {"absent", "dangling", "b2"}
      [] p = DropInPath("A", <<97>> \o DotConf)         -> {"absent", "bad", "b3"}
      [] p = BasePath("A", DotLocal)                   -> {"absent", "bad", "b2"}
      [] p = DropInPath("A", <<49, 48>> \o DotLocal)    -> {"absent", "dangling", "b1"}
      [] p = DropInPath("A", <<57>> \o DotLocal)        -> {"absent", "bad", "b3"}
      [] p = DropInPath("A", <<97>> \o DotConf \o <<126>>) -> {"absent", "b1"}
      [] p = BasePath("B", DotConf)                    -> {"absent", "b1"}
      [] OTHER                                         -> {"absent"}

\* the functions on S that take a value of FileStates(p) at each p
RECURSIVE Disks(_)
Disks(S) ==
    IF S = {} THEN { EmptyMap }
    ELSE LET p == CHOOSE x \in S : TRUE
         IN  { (p :> st) @@ d : st \in FileStates(p), d \in Disks(S \ {p}) }

InitPrivate ==
    /\ cfg_share = [n \in Names |-> NoStore]
    /\ nStores = NumFacades
    /\ read_cfg_files = NewStores
    /\ merged = [s \in StoreIds |-> EmptyMap]
    /\ cfg = [f \in Facades |-> f]
    /\ shared = [f \in Facades |-> FALSE]
    /\ firstRes = NewStores
    /\ lastOp = NoOp

InitFiles ==
    /\ baseDirExists \in BOOLEAN
    /\ disk \in Disks(AllPaths)
    /\ ~baseDirExists => disk = EmptyDisk
    /\ InitPrivate
    /\ InitReaderUnused
    /\ InitRest

PrivateReadOnce == \E n \in Names : Read(1, n, TRUE)
PrivateReadForced == \E n \in Names : Read(1, n, FALSE)

NextFiles ==
    \/ PrivateReadOnce /\ Sequential
    \/ PrivateReadForced /\ Sequential

SpecFiles == InitFiles /\ [][NextFiles]_vars

----------------------------------------------------------------------------
(* Properties of ConfigReader.read under Spec *)

IsRead == lastOp.op = "read"
Completed == IsRead /\ lastOp.ret # "raise"

\* C1: once a read(name, once=True) on a store has completed with a boolean,
\* every later read(name, once=True) on that store returns that boolean and
\* does not call ConfigReaderUnshared.read.
C1_ReadOnceCached ==
    [][ (/\ lastOp'.op = "read"
         /\ lastOp'.once
         /\ firstRes[lastOp'.store][lastOp'.name] # "None")
        => (/\ lastOp'.ret = firstRes[lastOp'.store][lastOp'.name]
            /\ ~lastOp'.invoked) ]_vars

\* a cached False is returned although the name's file now exists and parses
C1_Witness ==
    /\ IsRead /\ lastOp.once /\ ~lastOp.invoked
    /\ lastOp.ret = "False"
    /\ baseDirExists
    /\ Parses(BasePath(lastOp.name, DotConf))

\* C2: over all facades of one shared table, read(name, once=True) runs the
\* discovery of each name at most once (the name ends up cached in at most
\* one store) and every facade is given the same boolean for the name.
C2_SharedReadOnce ==
    \A n \in Names : \A s1, s2 \in StoreIds :
        (firstRes[s1][n] # "None" /\ firstRes[s2][n] # "None")
            => (s1 = s2 /\ firstRes[s1][n] = firstRes[s2][n])

\* C3: read(name, once=False) always runs ConfigReaderUnshared.read and
\* leaves its outcome as the cached result of the name.
C3_ForcedReadOverwrites ==
    (Completed /\ ~lastOp.once)
        => (/\ lastOp.invoked
            /\ read_cfg_files[lastOp.store][lastOp.name] = lastOp.ret)

\* C8: a ConfigReaderUnshared.read made while the base directory does not
\* exist raises, hands no file to the parser and leaves the merged state and
\* the read cache of every store as they were.
C8_NoBaseDirRaises ==
    [][ (lastOp'.op = "read" /\ lastOp'.invoked /\ ~baseDirExists)
        => (/\ lastOp'.ret = "raise"
            /\ lastOp'.files = <<>>
            /\ merged' = merged
            /\ read_cfg_files' = read_cfg_files) ]_vars

\* the read raises on a store that holds merged options of an earlier read
C8_Witness ==
    /\ IsRead /\ lastOp.ret = "raise"
    /\ merged[lastOp.store] # EmptyMap

----------------------------------------------------------------------------
(* Properties of ConfigReaderUnshared.read under SpecFiles *)

\* the four tiers: N.conf, N.d/*.conf, N.local, N.d/*.local
TierRank(p) ==
    IF p.dir = "" THEN (IF p.file = DotConf THEN 1 ELSE 3)
    ELSE (IF EndsWith(p.file, DotConf) THEN 2 ELSE 4)

InTiers(p, name) ==
    /\ p.ent = name
    /\ \/ p.dir = ""
       \/ EndsWith(p.file, DotConf)
       \/ EndsWith(p.file, DotLocal)

\* p comes before q in the full candidate sequence
Before(p, q) ==
    \/ TierRank(p) < TierRank(q)
    \/ TierRank(p) = TierRank(q) /\ p # q /\ StrLeq(p.file, q.file)

Keys == UNION { DOMAIN Body(b) : b \in Bodies }

\* the parseable candidates of name that define key k
Definers(name, k) ==
    { p \in AllPaths : InTiers(p, name) /\ Parses(p) /\ k \in DOMAIN Body(disk[p]) }

Merging == IsRead /\ lastOp.invoked /\ lastOp.ret # "raise"

\* C4: right after a read(N) that merged and returned True, every option that
\* some parsed file of N defines has the value of the last file defining it
\* in the order N.conf < N.d/*.conf < N.local < N.d/*.local, names in
\* lexicographic order within a tier.
C4_LastFileWins ==
    (Merging /\ lastOp.ret = "True") =>
        \A k \in Keys :
            LET D == Definers(lastOp.name, k)
            IN  D # {} =>
                  LET w == CHOOSE p \in D : \A q \in D \ {p} : Before(q, p)
                  IN  /\ k \in DOMAIN merged[lastOp.store]
                      /\ merged[lastOp.store][k] = Body(disk[w])[k]

\* all four tiers parsed; N.local overrides the drop-in a.conf, which
\* overrides a-b.conf
C4_Witness ==
    /\ Merging /\ lastOp.name = "A" /\ lastOp.ret = "True"
    /\ disk[BasePath("A", DotConf)] = "b1"
    /\ disk[DropInPath("A", <<97, 45, 98>> \o DotConf)] = "b2"
    /\ disk[DropInPath("A", <<97>> \o DotConf)] = "b3"
    /\ disk[BasePath("A", DotLocal)] = "b2"
    /\ disk[DropInPath("A", <<57>> \o DotLocal)] = "b3"
    /\ merged[lastOp.store][<<"Init", "x">>] = "loc"
    /\ merged[lastOp.store][<<"Definition", "opt">>] = "yes"

\* C5: the list handed to the parser holds exactly the existing paths of the
\* four tiers of the name, each once, in the order of the full candidate
\* sequence.
C5_FileList ==
    Merging =>
        LET fl == lastOp.files
        IN  /\ { fl[i] : i \in DOMAIN fl }
                  = { p \in AllPaths : InTiers(p, lastOp.name) /\ Exists(p) }
            /\ \A i, j \in DOMAIN fl : i < j => Before(fl[i], fl[j])

\* a list of at least four files while a broken link, a file of another
\* suffix and a file of another entity are on disk
C5_Witness ==
    /\ Merging /\ lastOp.name = "A"
    /\ Len(lastOp.files) >= 4
    /\ \E p \in AllPaths : disk[p] = "dangling"
    /\ disk[DropInPath("A", <<97>> \o DotConf \o <<126>>)] = "b1"
    /\ disk[BasePath("B", DotConf)] = "b1"

\* C6: with the base directory present, ConfigReaderUnshared.read returns
\* True exactly when at least one existing candidate file was parsed.
C6_TrueIffOneParsed ==
    Merging =>
        (lastOp.ret = "True"
            <=> \E p \in AllPaths : InTiers(p, lastOp.name) /\ Parses(p))

\* True although one existing candidate could not be parsed
C6_Witness ==
    /\ Merging /\ lastOp.ret = "True"
    /\ \E p \in AllPaths : InTiers(p, lastOp.name) /\ disk[p] = "bad"

NoCandidate(name) == \A p \in AllPaths : InTiers(p, name) => ~Exists(p)

\* C7 as stated: for a name with no candidate file at any tier every
\* read(name), the first and the later ones, returns False and does not raise.
C7_MissingEntityFalse ==
    (IsRead /\ NoCandidate(lastOp.name)) => lastOp.ret = "False"

\* C7 amended: the same while the base directory exists.
C7_MissingEntityFalseInBaseDir ==
    (IsRead /\ baseDirExists /\ NoCandidate(lastOp.name)) => lastOp.ret = "False"

\* a later read of the missing name, answered False again
C7_Witness ==
    /\ IsRead /\ baseDirExists /\ NoCandidate(lastOp.name)
    /\ firstRes[lastOp.store][lastOp.name] = "False"
    /\ ~lastOp.invoked
    /\ lastOp.ret = "False"

----------------------------------------------------------------------------
(* SpecOpts: a DefinitionInitConfigReader with a private store, constructed *)
(* with a caller's initOpts, over fixed files                               *)

CallerOpts == { EmptyMap, ("x" :> "caller"), ("x" :> "caller") @@ ("z" :> "own") }

InitOpts ==
    /\ baseDirExists = TRUE
    /\ \E c \in {"absent", "b1", "b2", "b3"}, l \in {"absent", "bad", "b2", "b3"} :
          disk = [EmptyDisk EXCEPT ![BasePath(File, DotConf)] = c,
                                   ![BasePath(File, DotLocal)] = l]
    /\ InitPrivate
    /\ configOpts \in OptionLists
    /\ callerOpts \in CallerOpts
    /\ initOpts = callerOpts          \* lines 214-216: setFile, then the argument
    /\ opts = EmptyMap
    /\ InitRest

ReaderRead == DefinitionRead
ReaderGetOptions == \E pOpts \in Exclusions : DefinitionGetOptions(pOpts)
StoreGetOptions ==
    \E sec \in Sections, o \in OptionLists, ex \in Exclusions : GetOptions(1, sec, o, ex)

NextOpts ==
    \/ ReaderRead /\ Sequential
    \/ ReaderGetOptions /\ Sequential
    \/ StoreGetOptions /\ Sequential

SpecOpts == InitOpts /\ [][NextOpts]_vars

\* C9: every option the constructor was given in initOpts keeps the caller's
\* value in self._initOpts through read and getOptions, however often called.
C9_CallerOverridesKept ==
    \A o \in DOMAIN callerOpts :
        o \in DOMAIN initOpts /\ initOpts[o] = callerOpts[o]

\* getOptions has harvested [Init], which defines the caller's option x with
\* another value and an option y the caller did not give
C9_Witness ==
    /\ lastOp.op = "getOptionsD" /\ lastOp.ret # "raise"
    /\ "x" \in DOMAIN callerOpts
    /\ <<"Init", "x">> \in DOMAIN merged[lastOp.store]
    /\ merged[lastOp.store][<<"Init", "x">>] # callerOpts["x"]
    /\ "y" \in DOMAIN initOpts
    /\ initOpts["x"] = "caller"

\* C10: the mapping getOptions returns has no key that is in excludeNames.
C10_ExcludedNeverReturned ==
    /\ (lastOp.op = "getOptions" /\ lastOp.pOptions.given)
          => DOMAIN lastOp.values \cap lastOp.pOptions.names = {}
    /\ (lastOp.op = "getOptionsD" /\ lastOp.pOptions.given)
          => DOMAIN opts \cap lastOp.pOptions.names = {}

----------------------------------------------------------------------------
(* getOptions on sections and options that are missing or ill-typed
   (SpecOpts) *)

\* a completed ConfigReader.getOptions, and what it was called on
IsGetOptions == lastOp.op = "getOptions" /\ lastOp.ret # "raise"
QueriedState == merged[lastOp.store]
SpecsGiven == { lastOp.options[i] : i \in DOMAIN lastOp.options }
Lacks(o) == /\ has_section(QueriedState, lastOp.sec)
            /\ <<lastOp.sec, o.name>> \notin DOMAIN QueriedState
FailsCoercion(o) ==
    /\ <<lastOp.sec, o.name>> \in DOMAIN QueriedState
    /\ \/ o.type = "bool" /\ QueriedState[<<lastOp.sec, o.name>>] \notin DOMAIN BooleanStates
       \/ o.type = "int" /\ QueriedState[<<lastOp.sec, o.name>>] \notin DOMAIN IntLiterals

\* C11: when getOptions is called on a section that exists and the section
\* lacks a spec's option, a non-null default is returned under the option's
\* name, and with a null default the name is no key of the result.
C11_MissingOptionDefault ==
    IsGetOptions =>
        \A o \in SpecsGiven :
            Lacks(o) =>
                IF o.default # NoneValue
                THEN o.name \in DOMAIN lastOp.values /\ lastOp.values[o.name] = o.default
                ELSE o.name \notin DOMAIN lastOp.values

C11_Witness ==
    /\ IsGetOptions
    /\ \E o \in SpecsGiven : Lacks(o) /\ o.default = NoneValue
    /\ lastOp.values # EmptyMap

\* C12: getOptions on a section that does not exist is not aborted: every
\* spec is processed, the result maps each option name to its default, a
\* null default included, and the caller sees no exception.
C12_MissingSectionDefaults ==
    (lastOp.op = "getOptions" /\ lastOp.store # NoStore
        /\ ~has_section(QueriedState, lastOp.sec)) =>
            /\ lastOp.ret # "raise"
            /\ DOMAIN lastOp.values = { o.name : o \in SpecsGiven }
            /\ \A o \in SpecsGiven : lastOp.values[o.name] = o.default

C12_Witness ==
    /\ IsGetOptions
    /\ ~has_section(QueriedState, lastOp.sec)
    /\ DOMAIN QueriedState # {}
    /\ \E o \in SpecsGiven : o.default = NoneValue /\ lastOp.values[o.name] = NoneValue

\* C13: a bool or int spec whose raw value fails the coercion is returned
\* with its default, the key being present even when the default is null,
\* and the caller sees no exception.
C13_CoercionFailureDefault ==
    (lastOp.op = "getOptions" /\ lastOp.store # NoStore) =>
        \A o \in SpecsGiven :
            FailsCoercion(o) =>
                /\ lastOp.ret # "raise"
                /\ o.name \in DOMAIN lastOp.values
                /\ lastOp.values[o.name] = o.default

C13_Witness ==
    /\ IsGetOptions
    /\ \E o \in SpecsGiven :
          /\ o.type = "bool"
          /\ FailsCoercion(o)
          /\ o.default = NoneValue
          /\ lastOp.values[o.name] = NoneValue

----------------------------------------------------------------------------
(* SpecShared: facades on one shared table next to private ones, the files
   fixed, with every method of ConfigReader *)

\* the facades are given the shared table, but the last, which is given it
\* or constructs its own store (lines 46-55)
Modes == { sh \in [Facades -> BOOLEAN] : \A f \in Facades : f < NumFacades => sh[f] }
PrivateUpTo(sh, f) == { g \in 1..f : ~sh[g] }

\* the files of the two entities hold different options
SharedDisks ==
    { [EmptyDisk EXCEPT ![BasePath("A", DotConf)] = a, ![BasePath("B", DotConf)] = "b3"] :
        a \in {"absent", "b1"} }

InitShared ==
    /\ baseDirExists = TRUE
    /\ disk \in SharedDisks
    /\ shared \in Modes
    /\ cfg = [f \in Facades |->
                IF shared[f] THEN NoStore ELSE Cardinality(PrivateUpTo(shared, f))]
    /\ nStores = Cardinality(PrivateUpTo(shared, NumFacades))
    /\ cfg_share = [n \in Names |-> NoStore]
    /\ read_cfg_files = NewStores
    /\ merged = [s \in StoreIds |-> EmptyMap]
    /\ firstRes = NewStores
    /\ lastOp = NoOp
    /\ InitReaderUnused
    /\ InitRest

\* the sections, options and option-spec lists the queries are made with
QueriedSections == {"Definition", "Nope"}
OptionNames == {"opt", "miss"}
QueriedLists == { o \in OptionLists : Len(o) = 2 /\ o[1].name = "opt" }

FacadeSections == \E f \in Facades : QuerySections(f)
FacadeHasSection == \E f \in Facades, sec \in QueriedSections : QueryHasSection(f, sec)
FacadeOptions == \E f \in Facades, sec \in QueriedSections : QueryOptions(f, sec)
FacadeGet ==
    \E f \in Facades, sec \in QueriedSections, opt \in OptionNames : QueryGet(f, sec, opt)
FacadeGetOptions ==
    \E f \in Facades, sec \in QueriedSections, o \in QueriedLists :
        GetOptions(f, sec, o, NoExclusion)
FacadeSetBaseDir == \E f \in Facades, bd \in BaseDirArgs : SetBaseDir(f, bd)
FacadeGetBaseDir == \E f \in Facades : GetBaseDir(f)

NextShared ==
    \/ ReadOnce /\ Sequential
    \/ FacadeSections /\ Sequential
    \/ FacadeHasSection /\ Sequential
    \/ FacadeOptions /\ Sequential
    \/ FacadeGet /\ Sequential
    \/ FacadeGetOptions /\ Sequential
    \/ FacadeSetBaseDir
    \/ FacadeGetBaseDir /\ Sequential

SpecShared == InitShared /\ [][NextShared]_vars

----------------------------------------------------------------------------
(* The methods that delegate, and the binding of a facade (SpecShared) *)

QueryOps == {"sections", "has_section", "options", "get", "getOptions"}

\* the same query asked again: the method, the facade and the arguments
SameQuery(a, b) ==
    /\ a.op = b.op /\ a.fac = b.fac /\ a.sec = b.sec /\ a.name = b.name
    /\ a.options = b.options /\ a.pOptions = b.pOptions

\* C14: sections, has_section, options, get and getOptions of ConfigReader
\* leave the store's merged state, its read cache, the shared table and the
\* facade's binding as they were, and the same query asked again with no
\* call in between has the same outcome.
C14_QueriesChangeNothing ==
    [][ lastOp'.op \in QueryOps =>
          /\ merged' = merged
          /\ read_cfg_files' = read_cfg_files
          /\ cfg_share' = cfg_share
          /\ cfg' = cfg
          /\ nStores' = nStores
          /\ SameQuery(lastOp, lastOp') =>
                /\ lastOp'.exc = lastOp.exc
                /\ lastOp'.result = lastOp.result
                /\ lastOp'.values = lastOp.values ]_vars

C14_Witness ==
    /\ lastOp.op = "getOptions"
    /\ lastOp.exc = "none"
    /\ shared[lastOp.fac]
    /\ cfg_share["A"] = lastOp.store
    /\ merged[lastOp.store] # EmptyMap
    /\ read_cfg_files[lastOp.store]["A"] = "True"
    /\ \E n \in DOMAIN lastOp.values : lastOp.values[n] # NoneValue

\* the outcome of the call lastOp records, were it made on a store whose
\* merged state is m and whose base directory is bd
OutcomeOn(m, bd) ==
    CASE lastOp.op = "sections" -> ParserSections(m)
      [] lastOp.op = "has_section" -> ParserHasSection(m, lastOp.sec)
      [] lastOp.op = "options" -> ParserOptions(m, lastOp.sec)
      [] lastOp.op = "get" -> ParserGet(m, lastOp.sec, lastOp.name)
      [] lastOp.op = "getBaseDir" -> Ok(<<"str", bd>>)
      [] OTHER -> Ok(<<>>)

FacadeOps == QueryOps \cup {"setBaseDir", "getBaseDir"}

\* C17: a facade given the shared table accepts what a facade with a private
\* store accepts: before its first read its queries, setBaseDir and
\* getBaseDir succeed and behave as on a private facade whose store is empty.
C17_SharedAsPrivateBeforeRead ==
    (lastOp.op \in FacadeOps /\ CfgState(lastOp.fac) = EmptyMap) =>
        /\ lastOp.exc = OutcomeOn(EmptyMap, DEFAULT_BASEDIR).exc
        /\ lastOp.result = OutcomeOn(EmptyMap, DEFAULT_BASEDIR).result
        /\ lastOp.op = "getOptions" =>
              lastOp.values = UnsharedGetOptions(EmptyMap, lastOp.sec, lastOp.options,
                                                 lastOp.pOptions)

\* the keys the files of entity n define
EntityKeys(n) == { k \in Keys : Definers(n, k) # {} }

\* C18: a facade given the shared table resolves its store at its first read
\* only and is never bound to another; the store it reads A and then B into
\* holds the options of the files of both, and its read cache has an entry
\* for both names.
C18_BoundOnceStoreHoldsAll ==
    [][ /\ \A f \in Facades : cfg[f] # NoStore => cfg'[f] = cfg[f]
        /\ (lastOp'.op = "read" /\ lastOp'.ret # "raise") =>
              /\ lastOp'.store = cfg'[lastOp'.fac]
              /\ read_cfg_files'[lastOp'.store][lastOp'.name] # "None"
              /\ \A n \in Names :
                    read_cfg_files[lastOp'.store][n] # "None" =>
                        /\ read_cfg_files'[lastOp'.store][n] = read_cfg_files[lastOp'.store][n]
                        /\ EntityKeys(n) \subseteq DOMAIN merged'[lastOp'.store]
              /\ EntityKeys(lastOp'.name) \subseteq DOMAIN merged'[lastOp'.store] ]_vars

C18_Witness ==
    /\ lastOp.op = "read" /\ lastOp.name = "B" /\ lastOp.invoked
    /\ shared[lastOp.fac]
    /\ cfg_share["A"] = lastOp.store
    /\ cfg_share["B"] = NoStore
    /\ read_cfg_files[lastOp.store] = [n \in Names |-> "True"]
    /\ EntityKeys("A") # {} /\ EntityKeys("B") # {}
    /\ EntityKeys("A") \cup EntityKeys("B") \subseteq DOMAIN merged[lastOp.store]

----------------------------------------------------------------------------
(* The shared table after a read (Spec) *)

\* C15: after any read(name) made through a facade given the shared table
\* has returned, the table has a store registered under name, and it is the
\* store the read was delegated to; this at every read, not only the first.
C15_ReadRegistersName ==
    (Completed /\ shared[lastOp.fac]) =>
        /\ cfg_share[lastOp.name] # NoStore
        /\ cfg_share[lastOp.name] = lastOp.store

----------------------------------------------------------------------------
(* SpecConc: callers running ConfigReader.read at the same time, each on its
   own facade, all facades given one shared table. Nothing in read takes a
   lock, so the statements of the callers interleave. *)

\* what a step of read leaves alone besides the stores and the table
StepFrame ==
    UNCHANGED <<baseDirExists, disk, shared, configOpts, initOpts, opts, callerOpts,
                firstRes, basedir, file, raised>>

At(f, label) == thread[f].pc = label
Goto(f, label) == [thread EXCEPT ![f].pc = label]

\* line 63: read(name, once) is entered
Call(f, name, once) ==
    /\ At(f, "idle")
    /\ thread' = [thread EXCEPT ![f] = [Idle EXCEPT !.pc = "l65", !.name = name,
                                                       !.once = once]]
    /\ UNCHANGED <<cfg, cfg_share, nStores, merged, read_cfg_files, lastOp>>
    /\ StepFrame

\* lines 65-66: self._cfg = self._cfg_share.get(name)
Lookup(f) ==
    /\ At(f, "l65")
    /\ IF Unbound(f)
       THEN /\ cfg' = [cfg EXCEPT ![f] = cfg_share[thread[f].name]]
            /\ thread' = Goto(f, "l67")
       ELSE /\ cfg' = cfg
            /\ thread' = Goto(f, "l71")
    /\ UNCHANGED <<cfg_share, nStores, merged, read_cfg_files, lastOp>>
    /\ StepFrame

\* lines 67-68: self._cfg = ConfigReaderUnshared(...)
Create(f) ==
    /\ At(f, "l67")
    /\ IF cfg[f] = NoStore
       THEN /\ cfg' = [cfg EXCEPT ![f] = nStores + 1]
            /\ nStores' = nStores + 1
            /\ thread' = Goto(f, "l69")
       ELSE /\ UNCHANGED <<cfg, nStores>>
            /\ thread' = Goto(f, "l71")
    /\ UNCHANGED <<cfg_share, merged, read_cfg_files, lastOp>>
    /\ StepFrame

\* line 69: self._cfg_share[name] = self._cfg
Register(f) ==
    /\ At(f, "l69")
    /\ cfg_share' = [cfg_share EXCEPT ![thread[f].name] = cfg[f]]
    /\ thread' = Goto(f, "l71")
    /\ UNCHANGED <<cfg, nStores, merged, read_cfg_files, lastOp>>
    /\ StepFrame

\* lines 71-73: the read-once check
Check(f) ==
    /\ At(f, "l71")
    /\ LET cached == read_cfg_files[cfg[f]][thread[f].name]
       IN  thread' = IF CacheHit(thread[f].once, cached)
                     THEN [thread EXCEPT ![f].pc = "l81", ![f].ret = cached]
                     ELSE Goto(f, "l76")
    /\ UNCHANGED <<cfg, cfg_share, nStores, merged, read_cfg_files, lastOp>>
    /\ StepFrame

\* line 76: ret = self._cfg.read(name)
Merge(f) ==
    /\ At(f, "l76")
    /\ LET r == UnsharedRead(merged[cfg[f]], thread[f].name)
       IN  /\ merged' = [merged EXCEPT ![cfg[f]] = r.merged]
           /\ thread' = [thread EXCEPT ![f].ret = r.ret, ![f].invoked = TRUE,
                                        ![f].pc = IF r.ret = "raise" THEN "l81" ELSE "l79"]
    /\ UNCHANGED <<cfg, cfg_share, nStores, read_cfg_files, lastOp>>
    /\ StepFrame

\* lines 79-80: the result is saved
Save(f) ==
    /\ At(f, "l79")
    /\ read_cfg_files' =
          IF SavesResult(thread[f].once)
          THEN [read_cfg_files EXCEPT ![cfg[f]][thread[f].name] = thread[f].ret]
          ELSE read_cfg_files
    /\ thread' = Goto(f, "l81")
    /\ UNCHANGED <<cfg, cfg_share, nStores, merged, lastOp>>
    /\ StepFrame

\* line 81 (or the ValueError leaving read): the call is over
Return(f) ==
    /\ At(f, "l81")
    /\ thread' = Goto(f, "done")
    /\ lastOp' = [NoOp EXCEPT !.op = "read", !.fac = f, !.name = thread[f].name,
                              !.once = thread[f].once, !.store = cfg[f],
                              !.ret = thread[f].ret, !.invoked = thread[f].invoked,
                              !.exc = IF thread[f].ret = "raise" THEN "ValueError"
                                      ELSE "none"]
    /\ UNCHANGED <<cfg, cfg_share, nStores, merged, read_cfg_files>>
    /\ StepFrame

InitConc ==
    /\ baseDirExists \in BOOLEAN
    /\ disk \in SharedDisks
    /\ ~baseDirExists => disk = EmptyDisk
    /\ cfg_share = [n \in Names |-> NoStore]
    /\ nStores = 0
    /\ read_cfg_files = NewStores
    /\ merged = [s \in StoreIds |-> EmptyMap]
    /\ cfg = [f \in Facades |-> NoStore]
    /\ shared = [f \in Facades |-> TRUE]
    /\ firstRes = NewStores
    /\ lastOp = NoOp
    /\ InitReaderUnused
    /\ InitRest

Calls == \E f \in Facades, n \in Names, once \in BOOLEAN : Call(f, n, once)
Lookups == \E f \in Facades : Lookup(f)
Creates == \E f \in Facades : Create(f)
Registrations == \E f \in Facades : Register(f)
Checks == \E f \in Facades : Check(f)
Merges == \E f \in Facades : Merge(f)
Saves == \E f \in Facades : Save(f)
Returns == \E f \in Facades : Return(f)

NextConc ==
    \/ Calls
    \/ Lookups
    \/ Creates
    \/ Registrations
    \/ Checks
    \/ Merges
    \/ Saves
    \/ Returns

SpecConc == InitConc /\ [][NextConc]_vars

\* C16: when two callers run read(name) at the same time through facades on
\* one shared table, the lookup-or-create and the read-once check act as one
\* atomic unit: whatever the interleaving, one store only is registered for
\* the name, both callers are bound to it, and the name's files are merged
\* at most once.
C16_ConcurrentReadsAtomic ==
    \A f, g \in Facades :
        (/\ f # g
         /\ At(f, "done") /\ At(g, "done")
         /\ thread[f].name = thread[g].name
         /\ thread[f].once /\ thread[g].once
         /\ thread[f].ret # "raise" /\ thread[g].ret # "raise") =>
            /\ cfg[f] = cfg[g]
            /\ cfg_share[thread[f].name] = cfg[f]
            /\ ~(thread[f].invoked /\ thread[g].invoked)

----------------------------------------------------------------------------
(* SpecDir: reads with once=True while the base directory comes and goes,
   with the history of the reads that raised *)

\* raised[s][n]: "pending" once a read(n, once=True) on store s has raised,
\* "retried" once a later read(n, once=True) on s has returned
TrackRaised ==
    LET s == lastOp'.store
        n == lastOp'.name
    IN  raised' = IF lastOp'.ret = "raise"
                  THEN [raised EXCEPT ![s][n] = "pending"]
                  ELSE IF raised[s][n] = "pending"
                  THEN [raised EXCEPT ![s][n] = "retried"]
                  ELSE raised

DirReadOnce ==
    /\ \E f \in Facades, n \in Names : Read(f, n, TRUE)
    /\ TrackRaised
    /\ UNCHANGED <<basedir, file, thread>>

\* the file of entity A is written or removed
DirFileChanges == \E st \in DynStates : FsChange(BasePath("A", DotConf), st)

NextDir ==
    \/ DirReadOnce
    \/ DirFileChanges /\ Sequential
    \/ RemoveBaseDir /\ Sequential
    \/ CreateBaseDir /\ Sequential

SpecDir == Init /\ [][NextDir]_vars

\* C19: a read(name, once=True) that raises because the base directory is
\* missing leaves the store's read cache as it was, with no entry for name,
\* so the next read(name, once=True), made when the directory is there
\* again, runs the discovery anew and returns no cached outcome.
C19_RaiseNotCached ==
    [][ (lastOp'.op = "read" /\ lastOp'.once) =>
          /\ lastOp'.ret = "raise" =>
                /\ read_cfg_files' = read_cfg_files
                /\ read_cfg_files'[lastOp'.store][lastOp'.name] = "None"
          /\ raised[lastOp'.store][lastOp'.name] = "pending" =>
                /\ lastOp'.invoked
                /\ baseDirExists => lastOp'.ret # "raise" ]_vars

C19_Witness ==
    /\ IsRead /\ lastOp.once /\ lastOp.invoked
    /\ lastOp.ret = "True"
    /\ raised[lastOp.store][lastOp.name] = "retried"
    /\ read_cfg_files[lastOp.store][lastOp.name] = "True"

----------------------------------------------------------------------------
(* SpecSetFile: a DefinitionInitConfigReader whose file is set anew *)

ReaderSetFile == \E n \in Names : SetFile(n)

NextSetFile ==
    \/ ReaderRead /\ Sequential
    \/ ReaderGetOptions /\ Sequential
    \/ ReaderSetFile

SpecSetFile == InitOpts /\ [][NextSetFile]_vars

\* the options of [Init] in the reader's store, with their values
InitSection ==
    [o \in options(merged[cfg[1]], "Init") |-> merged[cfg[1]][<<"Init", o>>]]

\* C20: setFile replaces the init-overrides gathered so far by an empty
\* mapping: after it every override the caller gave and every value
\* harvested before is gone, and the next getOptions harvests the [Init]
\* section's own value for those options.
C20_SetFileDropsOverrides ==
    [][ /\ lastOp'.op = "setFile" => (initOpts' = EmptyMap /\ file' = lastOp'.name)
        /\ (lastOp'.op = "getOptionsD" /\ lastOp'.exc = "none" /\ initOpts = EmptyMap) =>
              initOpts' = InitSection ]_vars

C20_Witness ==
    /\ lastOp.op = "getOptionsD"
    /\ lastOp.exc = "none"
    /\ "x" \in DOMAIN callerOpts
    /\ "z" \in DOMAIN callerOpts /\ "z" \notin DOMAIN initOpts
    /\ "x" \in DOMAIN initOpts
    /\ initOpts["x"] # callerOpts["x"]
    /\ initOpts = InitSection

====
